---- MODULE Spec2Model ----
(***************************************************************************)
(* A model of the AFLUX request client, src/aflow.py (class AflowAPI).     *)
(*                                                                         *)
(* Python strings are sequences of one-character strings, so that          *)
(* concatenation, str.replace, str.split, str.join, str.strip and the      *)
(* f-string formatting of integers are computed character by character.    *)
(* An Optional[int] is the empty tuple (None) or a one-element tuple.      *)
(***************************************************************************)
EXTENDS Integers, Sequences, FiniteSets, TLC

VARIABLES
    API_KEYWORDS,    \* the keywords in the order `for key in self.API_KEYWORDS` visits them
    DEFAULT_PAGING,  \* the class attribute DEFAULT_PAGING
    max_retries,     \* self.max_retries: None or a count
    scope,           \* position of a `with` block around the client
    session,         \* self.session: "open" or "closed"
    nclose,          \* number of session.close() calls so far
    as_target,       \* what __enter__ returned to the `with ... as` target
    pending,         \* exception raised inside the `with` body, not yet past __exit__
    propagated,      \* exception that reached the caller of the last call or scope
    call,            \* the call in progress (operation and arguments), or NoCall
    outcome,         \* how that call ended: returned value or raised exception
    urls,            \* the URLs that call passed to session.get, in order
    response,        \* the response session.get returned to that call, or NoResponse
    stdout           \* what that call printed

vars == <<API_KEYWORDS, DEFAULT_PAGING, max_retries, scope, session, nclose,
          as_target, pending, propagated, call, outcome, urls, response, stdout>>

----------------------------------------------------------------------------
(* Bounds of the model *)

MaxDefaultPaging == 1
MaxRetries == 1
MaxPaging == 2
MaxChunk == 2
MaxTextLen == 8
MaxQueryLen == 4
MaxKeyLen == 2
MaxKeys == 2

----------------------------------------------------------------------------
(* Python values *)

None == <<>>
Some(v) == <<v>>
IsNone(o) == Len(o) = 0
Val(o) == o[1]

Range(s) == {s[i] : i \in 1..Len(s)}

RECURSIVE SeqsUpTo(_, _)
SeqsUpTo(S, n) ==
    IF n = 0 THEN {<<>>}
    ELSE LET shorter == SeqsUpTo(S, n - 1)
         IN  shorter \cup {Append(s, c) : s \in {t \in shorter : Len(t) = n - 1}, c \in S}

(* string.punctuation (its backquote has no TLA+ string literal and is in no
   alphabet of the model) *)
punctuation ==
    {"!", "\"", "#", "$", "%", "&", "'", "(", ")", "*", "+", ",", "-", ".", "/", ":",
     ";", "<", "=", ">", "?", "@", "[", "\\", "]", "^", "_", "{", "|", "}", "~"}

Letters ==
    {"a", "b", "c", "d", "e", "f", "g", "h", "i", "j", "k", "l", "m",
     "n", "o", "p", "q", "r", "s", "t", "u", "v", "w", "x", "y", "z",
     "A", "B", "C", "D", "E", "F", "G", "H", "I", "J", "K", "L", "M",
     "N", "O", "P", "Q", "R", "S", "T", "U", "V", "W", "X", "Y", "Z"}

DigitChars == <<"0", "1", "2", "3", "4", "5", "6", "7", "8", "9">>

(* str.isspace, str.isalpha, str.isnumeric on one character *)
isspace(c) == c \in {" ", "\t", "\n", "\r", "\f"}
isalpha(c) == c \in Letters
isnumeric(c) == c \in Range(DigitChars)

(* f"{n}" for an int n *)
RECURSIVE NatToStr(_)
NatToStr(n) ==
    IF n < 10 THEN <<DigitChars[n + 1]>>
    ELSE NatToStr(n \div 10) \o <<DigitChars[(n % 10) + 1]>>

IntToStr(n) == IF n < 0 THEN <<"-">> \o NatToStr(-n) ELSE NatToStr(n)

(* old in s, for strings *)
Contains(s, old) ==
    \E i \in 1..(Len(s) - Len(old) + 1) : SubSeq(s, i, i + Len(old) - 1) = old

(* s.replace(old, new), old non-empty: left to right, non-overlapping, one pass *)
RECURSIVE Replace(_, _, _)
Replace(s, old, new) ==
    IF Len(s) < Len(old) THEN s
    ELSE IF SubSeq(s, 1, Len(old)) = old
         THEN new \o Replace(SubSeq(s, Len(old) + 1, Len(s)), old, new)
         ELSE <<Head(s)>> \o Replace(Tail(s), old, new)

(* s.split(sep) for a one-character sep: a list of strings *)
RECURSIVE Split(_, _)
Split(s, sep) ==
    IF \A i \in 1..Len(s) : s[i] # sep THEN <<s>>
    ELSE LET i == CHOOSE j \in 1..Len(s) : s[j] = sep /\ \A k \in 1..(j - 1) : s[k] # sep
         IN  <<SubSeq(s, 1, i - 1)>> \o Split(SubSeq(s, i + 1, Len(s)), sep)

(* sep.join(parts) *)
RECURSIVE Join(_, _)
Join(sep, parts) ==
    IF Len(parts) = 0 THEN <<>>
    ELSE IF Len(parts) = 1 THEN parts[1]
    ELSE parts[1] \o sep \o Join(sep, Tail(parts))

(* s.strip() *)
RECURSIVE LStrip(_)
LStrip(s) == IF Len(s) > 0 /\ isspace(Head(s)) THEN LStrip(Tail(s)) ELSE s

RECURSIVE RStrip(_)
RStrip(s) ==
    IF Len(s) > 0 /\ isspace(s[Len(s)]) THEN RStrip(SubSeq(s, 1, Len(s) - 1)) ELSE s

Strip(s) == RStrip(LStrip(s))

(* list.insert one position late *)
Insert_late(l, i, x) == SubSeq(l, 1, i + 1) \o <<x>> \o SubSeq(l, i + 2, Len(l))

(* list.insert(i, x) with a 0-based index i <= len *)
Insert(l, i, x) == SubSeq(l, 1, i) \o <<x>> \o SubSeq(l, i + 1, Len(l))

----------------------------------------------------------------------------
(* Class attributes of AflowAPI.  The module src.utils.constants is not part *)
(* of the sources at hand: the values below are samples of what it may hold. *)

(* "https://aflow.org" and "/API/aflux/?" *)
SERVER == <<"h", "t", "t", "p", "s", ":", "/", "/", "a", "f", "l", "o", "w", ".", "o", "r", "g">>
API == <<"/", "A", "P", "I", "/", "a", "f", "l", "u", "x", "/", "?">>

STATUS_FORCELIST == {429, 500, 502, 503, 504}
API_OPERATORS == {"(", ")", ",", ":", "!", "*", "'", "$"}

(* "species" and "Egap", as a list in this order *)
AFLOW_KEYWORDS ==
    << <<"s", "p", "e", "c", "i", "e", "s">>, <<"E", "g", "a", "p">> >>

DefaultPagings == 0..MaxDefaultPaging

(* The names defined on AflowAPI and its instances *)
AflowAPI_attrs ==
    {"SERVER", "API", "PROTOCOLS", "STATUS_FORCELIST", "API_KEYWORDS", "API_OPERATORS",
     "DEFAULT_PAGING", "max_retries", "session", "__init__", "__enter__", "__exit__",
     "_create_session", "_make_request", "_is_query_valid", "base_url", "request",
     "help", "get_contcar", "get_property"}

hasattr(name) == name \in AflowAPI_attrs

----------------------------------------------------------------------------
(* Query validation *)

(* the for loop of _is_query_valid over the first n keys of keys *)
RECURSIVE remove_keywords(_, _, _)
remove_keywords(query_keywords, keys, n) ==
    IF n = 0 THEN query_keywords
    ELSE LET before == remove_keywords(query_keywords, keys, n - 1)
             key == keys[n]
         IN  IF Contains(before, key) THEN Replace(before, key, <<>>) ELSE before

is_query_valid_with(query, keys) ==
    LET check_spaces == \E i \in 1..Len(query) : isspace(query[i])
        query_operators == SelectSeq(query, LAMBDA c : c \in punctuation)
        check_operators == \A i \in 1..Len(query_operators) : query_operators[i] \in API_OPERATORS
        query_keywords == remove_keywords(SelectSeq(query, isalpha), keys, Len(keys))
        check_keywords == Len(query_keywords) = 0
    IN  check_spaces /\ check_operators /\ check_keywords

is_query_valid(query) == is_query_valid_with(query, API_KEYWORDS)

----------------------------------------------------------------------------
(* The transport: requests.Session with the adapter _create_session mounts *)

NoResponse == [status |-> 0, text |-> <<>>, returned |-> FALSE]

(* One attempt per element of answers: the status the server gives it.  With a
   Retry mounted, a forcelisted status is retried while retries are left, and
   raises requests.exceptions.RetryError from session.get once they are used up. *)
RECURSIVE send(_, _)
send(answers, retries_left) ==
    LET status == Head(answers)
    IN  IF ~IsNone(max_retries) /\ status \in STATUS_FORCELIST
        THEN IF retries_left > 0 /\ Len(answers) > 1
             THEN send(Tail(answers), retries_left - 1)
             ELSE [raised |-> "RetryError", status |-> status]
        ELSE [raised |-> "none", status |-> status]

session_get(answers) == send(answers, IF IsNone(max_retries) THEN 0 ELSE Val(max_retries))

(* Response.raise_for_status raises HTTPError for 4xx and 5xx *)
raise_for_status(status) == 400 <= status /\ status < 600

Result(kind, val, url_list, resp, out) ==
    [kind |-> kind, val |-> val, urls |-> url_list, resp |-> resp, out |-> out]

make_request(url, answers, text) ==
    LET got == session_get(answers)
        resp == [status |-> got.status, text |-> text, returned |-> TRUE]
    IN  IF got.raised # "none"
        THEN Result(got.raised, <<>>, <<url>>,
                    [status |-> got.status, text |-> <<>>, returned |-> FALSE], <<>>)
        ELSE IF raise_for_status(got.status)
        THEN Result("RuntimeError", <<>>, <<url>>, resp, <<>>)
        ELSE Result("return", resp, <<url>>, resp, <<>>)

(* Response.json() on the texts of the model: a JSON number, the JSON list
   ["a"], or not JSON at all (None) *)
JSON_LIST_TEXT == <<"[", "\"", "a", "\"", "]">>

JsonDecode(text) ==
    LET t == Strip(text)
    IN  IF t = JSON_LIST_TEXT THEN Some([type |-> "list", items |-> << <<"a">> >>])
        ELSE IF Len(t) > 0 /\ (\A i \in 1..Len(t) : isnumeric(t[i])) /\ (Len(t) = 1 \/ t[1] # "0")
        THEN Some([type |-> "number", items |-> <<t>>])
        ELSE None

----------------------------------------------------------------------------
(* The operations of the client.  answers and text are the server's side of *)
(* the exchange: the status it gives each attempt and the body it sends.    *)

base_url == SERVER \o API

FORMAT_JSON == <<"f", "o", "r", "m", "a", "t", "(", "j", "s", "o", "n", ")">>
PAGING_OPEN == <<"$", "p", "a", "g", "i", "n", "g", "(">>

(* `paging or self.DEFAULT_PAGING`: Python's or takes the right operand when
   the left one is falsy, which None and 0 both are *)
paging_or_default(paging) ==
    IF IsNone(paging) \/ Val(paging) = 0 THEN DEFAULT_PAGING ELSE Val(paging)

(* the directive with its two numbers in the wrong order *)
paging_str_swapped(paging, chunk_size) ==
    IF ~IsNone(chunk_size)
    THEN PAGING_OPEN \o IntToStr(Val(chunk_size)) \o <<",">> \o IntToStr(paging) \o <<")">>
    ELSE PAGING_OPEN \o IntToStr(paging) \o <<")">>

paging_str(paging, chunk_size) ==
    IF ~IsNone(chunk_size)
    THEN PAGING_OPEN \o IntToStr(paging) \o <<",">> \o IntToStr(Val(chunk_size)) \o <<")">>
    ELSE PAGING_OPEN \o IntToStr(paging) \o <<")">>

request_url(matchbook, paging, chunk_size, no_directives) ==
    IF ~no_directives
    THEN base_url \o matchbook \o paging_str(paging_or_default(paging), chunk_size) \o FORMAT_JSON
    ELSE base_url \o matchbook

(* request without its check of chunk_size *)
request_unchecked_chunk(matchbook, paging, chunk_size, no_directives, answers, text) ==
    IF ~IsNone(paging) /\ Val(paging) < 0
    THEN Result("ValueError", <<>>, <<>>, NoResponse, <<>>)
    ELSE IF ~is_query_valid(matchbook)
    THEN Result("ValueError", <<>>, <<>>, NoResponse, <<>>)
    ELSE LET got == make_request(request_url(matchbook, paging, chunk_size, no_directives),
                                 answers, text)
         IN  IF got.kind # "return" THEN got
             ELSE IF IsNone(JsonDecode(got.val.text))
             THEN Result("RuntimeError", <<>>, got.urls, got.resp, <<>>)
             ELSE Result("return", Val(JsonDecode(got.val.text)), got.urls, got.resp, <<>>)

request(matchbook, paging, chunk_size, no_directives, answers, text) ==
    IF ~IsNone(chunk_size) /\ Val(chunk_size) < 1
    THEN Result("ValueError", <<>>, <<>>, NoResponse, <<>>)
    ELSE IF ~IsNone(paging) /\ Val(paging) < 0
    THEN Result("ValueError", <<>>, <<>>, NoResponse, <<>>)
    ELSE IF ~is_query_valid(matchbook)
    THEN Result("ValueError", <<>>, <<>>, NoResponse, <<>>)
    ELSE LET got == make_request(request_url(matchbook, paging, chunk_size, no_directives),
                                 answers, text)
         IN  IF got.kind # "return" THEN got
             ELSE IF IsNone(JsonDecode(got.val.text))
             THEN Result("RuntimeError", <<>>, got.urls, got.resp, <<>>)
             ELSE Result("return", Val(JsonDecode(got.val.text)), got.urls, got.resp, <<>>)

HELP_OPEN == <<"h", "e", "l", "p", "(">>
(* "No help information found for keyword: " *)
NO_HELP ==
    <<"N", "o", " ", "h", "e", "l", "p", " ", "i", "n", "f", "o", "r", "m", "a", "t", "i", "o", "n", " ", "f",
      "o", "u", "n", "d", " ", "f", "o", "r", " ", "k", "e", "y",
      "w", "o", "r", "d", ":", " ">>

(* help calls self.aflux_request, a name AflowAPI does not define: the attribute
   lookup raises AttributeError before any request is made.  The branches after
   the lookup are what the method does where the name resolves to request; the
   JSON values of the model are a list and a number, which help_data[keyword]
   rejects with TypeError. *)
help(keyword, answers, text) ==
    IF IsNone(keyword)
    THEN IF ~hasattr("aflux_request")
         THEN Result("AttributeError", <<>>, <<>>, NoResponse, <<>>)
         ELSE LET got == request(<<>>, None, None, TRUE, answers, text)
              IN  IF got.kind # "return" THEN got
                  ELSE IF got.val.type # "list"
                  THEN Result("TypeError", <<>>, got.urls, got.resp, <<>>)
                  ELSE Result("return", None, got.urls, got.resp,
                              <<Join(<<"\n">>, got.val.items)>>)
    ELSE IF ~is_query_valid(Val(keyword))
    THEN Result("ValueError", <<>>, <<>>, NoResponse, <<>>)
    ELSE IF ~hasattr("aflux_request")
    THEN Result("AttributeError", <<>>, <<>>, NoResponse, <<>>)
    ELSE LET got == request(HELP_OPEN \o Val(keyword) \o <<")">>, None, None, TRUE,
                            answers, text)
         IN  IF got.kind = "RuntimeError"
             THEN Result("return", None, got.urls, got.resp, <<NO_HELP \o Val(keyword)>>)
             ELSE IF got.kind # "return" THEN got
             ELSE Result("TypeError", <<>>, got.urls, got.resp, <<>>)

HTTP_PREFIX == <<"h", "t", "t", "p", ":", "/", "/">>
CONTCAR_PATH == <<"/", "C", "O", "N", "T", "C", "A", "R", ".", "r", "e", "l", "a", "x">>

has_key(entry, key) == key \in DOMAIN entry

get_contcar(entry, answers, text) ==
    IF ~has_key(entry, "aurl")
    THEN Result("ValueError", <<>>, <<>>, NoResponse, <<>>)
    ELSE LET aurl == Replace(entry["aurl"], <<":">>, <<"/">>)
             got == make_request(HTTP_PREFIX \o aurl \o CONTCAR_PATH, answers, text)
         IN  IF got.kind # "return" THEN got
             ELSE LET poscar_lines == Split(got.val.text, "\n")
                  IN  IF Len(poscar_lines) < 6 \/ Len(Strip(poscar_lines[6])) = 0
                      THEN Result("IndexError", <<>>, got.urls, got.resp, <<>>)
                      ELSE IF ~isnumeric(Strip(poscar_lines[6])[1])
                      THEN Result("return", Join(<<"\n">>, poscar_lines),
                                  got.urls, got.resp, <<>>)
                      ELSE IF ~has_key(entry, "species")
                      THEN Result("KeyError", <<>>, got.urls, got.resp, <<>>)
                      ELSE Result("return",
                                  Join(<<"\n">>, Insert(poscar_lines, 5,
                                                        Join(<<" ">>, entry["species"]))),
                                  got.urls, got.resp, <<>>)

get_property(entry, property, answers, text) ==
    IF ~has_key(entry, "aurl")
    THEN Result("ValueError", <<>>, <<>>, NoResponse, <<>>)
    ELSE LET aurl == Replace(entry["aurl"], <<":">>, <<"/">>)
             got == make_request(HTTP_PREFIX \o aurl \o <<"/", "?">> \o property, answers, text)
         IN  IF got.kind # "return" THEN got
             ELSE Result("return", Split(Strip(got.val.text), ";"), got.urls, got.resp, <<>>)

----------------------------------------------------------------------------
(* The callers' arguments and the server's answers *)

SPECIES == <<"s", "p", "e", "c", "i", "e", "s">>

Matchbooks ==
    { <<>>,                          \* empty
      SPECIES \o <<" ">>,            \* a keyword and a space
      SPECIES,                       \* no whitespace
      SPECIES \o <<";", " ">>,       \* a punctuation character that is no operator
      <<"x", " ">> }                 \* letters that are no keyword

Pagings == {None} \cup {Some(p) : p \in (-1)..MaxPaging}
Chunks == {None} \cup {Some(c) : c \in 0..MaxChunk}

Keywords == {None, Some(SPECIES \o <<" ">>), Some(SPECIES)}

Entries ==
    { [aurl |-> <<"h", ":", "d">>, species |-> << <<"S", "i">>, <<"O">> >>],
      [aurl |-> <<"h", ":", "d">>],
      [species |-> << <<"S", "i">>, <<"O">> >>] }

Properties == { <<"E", "g", "a", "p">> }

Statuses == {200, 304, 404, 503}

(* the statuses the server gives the attempts of one session.get *)
Attempts == IF IsNone(max_retries) THEN 1 ELSE Val(max_retries) + 1
Answers == [1..Attempts -> Statuses]

SampleTexts ==
    { JSON_LIST_TEXT,
      <<"x", ";", " ", "y">>,
      <<"\n", "\n", "\n", "\n", "\n", "1">> }

TextChars == {"\n", " ", "1", "x"}
AllTexts == SeqsUpTo(TextChars, MaxTextLen)

KeyChars == {"a", "b"}
QueryChars == {"a", "b", " ", "(", ";"}
Keys == SeqsUpTo(KeyChars, MaxKeyLen) \ {<<>>}
KeywordOrders ==
    {ks \in SeqsUpTo(Keys, MaxKeys) : \A i, j \in 1..Len(ks) : i # j => ks[i] # ks[j]}
Queries == SeqsUpTo(QueryChars, MaxQueryLen)

----------------------------------------------------------------------------
(* The state machine *)

NoCall == [op |-> "none"]
NoOutcome == [kind |-> "none", val |-> <<>>]

(* __init__: a client outside any with block, its session open *)
Constructed ==
    /\ scope = "outside" /\ session = "open" /\ nclose = 0
    /\ as_target = "none" /\ pending = "none" /\ propagated = "none"
    /\ call = NoCall /\ outcome = NoOutcome /\ urls = <<>>
    /\ response = NoResponse /\ stdout = <<>>

Init ==
    /\ API_KEYWORDS = AFLOW_KEYWORDS
    /\ DEFAULT_PAGING \in DefaultPagings
    /\ max_retries \in {None} \cup {Some(n) : n \in 0..MaxRetries}
    /\ Constructed

(* the caller may call: no call is running and no exception is in flight *)
Idle == call = NoCall /\ pending = "none" /\ scope \in {"outside", "inside"}

Run(c, r) ==
    /\ call' = c
    /\ outcome' = [kind |-> r.kind, val |-> r.val]
    /\ urls' = r.urls
    /\ response' = r.resp
    /\ stdout' = r.out
    /\ UNCHANGED <<API_KEYWORDS, DEFAULT_PAGING, max_retries, scope, session, nclose,
                   as_target, pending, propagated>>

Request ==
    /\ Idle
    /\ \E matchbook \in Matchbooks, paging \in Pagings, chunk_size \in Chunks,
          no_directives \in BOOLEAN, answers \in Answers, text \in SampleTexts :
          Run([op |-> "request", matchbook |-> matchbook, paging |-> paging,
               chunk_size |-> chunk_size, no_directives |-> no_directives],
              request(matchbook, paging, chunk_size, no_directives, answers, text))

Help ==
    /\ Idle
    /\ \E keyword \in Keywords, answers \in Answers, text \in SampleTexts :
          Run([op |-> "help", keyword |-> keyword, answers |-> answers, text |-> text],
              help(keyword, answers, text))

GetContcar(answer_set, text_set) ==
    /\ Idle
    /\ \E entry \in Entries, answers \in answer_set, text \in text_set :
          Run([op |-> "get_contcar", entry |-> entry], get_contcar(entry, answers, text))

GetProperty ==
    /\ Idle
    /\ \E entry \in Entries, property \in Properties, answers \in Answers,
          text \in SampleTexts :
          Run([op |-> "get_property", entry |-> entry, property |-> property],
              get_property(entry, property, answers, text))

IsQueryValid ==
    /\ Idle
    /\ \E query \in Queries :
          Run([op |-> "_is_query_valid", query |-> query],
              Result("return", is_query_valid(query), <<>>, NoResponse, <<>>))

(* The call ends: its value or its exception goes to the caller.  An exception
   raised in the body of a with block leaves the body for __exit__. *)
Return ==
    /\ call # NoCall
    /\ call' = NoCall /\ outcome' = NoOutcome /\ urls' = <<>>
    /\ response' = NoResponse /\ stdout' = <<>>
    /\ pending' = IF scope = "inside" /\ outcome.kind # "return" THEN outcome.kind ELSE "none"
    /\ UNCHANGED <<API_KEYWORDS, DEFAULT_PAGING, max_retries, scope, session, nclose,
                   as_target, propagated>>

(* __enter__ returns self *)
enter_result == "self"

Enter ==
    /\ scope = "outside" /\ call = NoCall
    /\ scope' = "inside"
    /\ as_target' = enter_result
    /\ UNCHANGED <<API_KEYWORDS, DEFAULT_PAGING, max_retries, session, nclose, pending,
                   propagated, call, outcome, urls, response, stdout>>

(* an __exit__ that returns a truthy value *)
exit_result_suppressing == [session |-> "closed", closed |-> 1, suppress |-> TRUE]

(* __exit__ closes the session and returns None, which is falsy: the with
   statement re-raises the exception of the body *)
exit_result == [session |-> "closed", closed |-> 1, suppress |-> FALSE]

Exit ==
    /\ scope = "inside" /\ call = NoCall
    /\ scope' = "left"
    /\ session' = exit_result.session
    /\ nclose' = nclose + exit_result.closed
    /\ propagated' = IF exit_result.suppress THEN "none" ELSE pending
    /\ pending' = "none"
    /\ UNCHANGED <<API_KEYWORDS, DEFAULT_PAGING, max_retries, as_target,
                   call, outcome, urls, response, stdout>>

Next ==
    \/ Request
    \/ Help
    \/ GetContcar(Answers, SampleTexts)
    \/ GetProperty
    \/ Return
    \/ Enter
    \/ Exit

Spec == Init /\ [][Next]_vars

(* get_contcar alone, on every text of the bound, the server answering 200 *)
InitContcar ==
    /\ API_KEYWORDS = AFLOW_KEYWORDS
    /\ DEFAULT_PAGING = 0
    /\ max_retries = None
    /\ Constructed

NextContcar ==
    \/ GetContcar({<<200>>}, AllTexts)
    \/ Return

ContcarSpec == InitContcar /\ [][NextContcar]_vars

(* _is_query_valid alone, on every keyword list and query of the bounds *)
InitValid ==
    /\ API_KEYWORDS \in KeywordOrders
    /\ DEFAULT_PAGING = 0
    /\ max_retries = None
    /\ Constructed

NextValid ==
    \/ IsQueryValid
    \/ Return

ValidSpec == InitValid /\ [][NextValid]_vars

----------------------------------------------------------------------------
(* Properties *)

ValidChunk(chunk_size) == IsNone(chunk_size) \/ Val(chunk_size) >= 1
ValidPaging(paging) == IsNone(paging) \/ Val(paging) >= 0

InvalidArgument ==
    \/ /\ call.op = "request"
       /\ \/ ~ValidChunk(call.chunk_size)
          \/ ~ValidPaging(call.paging)
          \/ ~is_query_valid(call.matchbook)
    \/ /\ call.op \in {"get_contcar", "get_property"}
       /\ "aurl" \notin DOMAIN call.entry

(* C1: a call given an invalid argument (request with chunk_size < 1, paging < 0
   or a matchbook that fails validation; get_contcar or get_property with an entry
   without 'aurl') ends in ValueError and has passed no URL to session.get. *)
C1_InvalidArgumentBeforeGet ==
    InvalidArgument => outcome.kind = "ValueError" /\ urls = <<>>

C1_Witness ==
    /\ call.op = "request"
    /\ ValidChunk(call.chunk_size) /\ ValidPaging(call.paging)
    /\ call.matchbook = SPECIES
    /\ outcome.kind = "ValueError"

C1_WitnessChunk ==
    /\ call.op = "request"
    /\ ~ValidChunk(call.chunk_size) /\ ValidPaging(call.paging)
    /\ is_query_valid(call.matchbook)
    /\ outcome.kind = "ValueError"

C1_WitnessEntry ==
    /\ call.op = "get_contcar"
    /\ "aurl" \notin DOMAIN call.entry
    /\ outcome.kind = "ValueError"

(* "$paging(p)" or "$paging(p,c)", then "format(json)" *)
Directives(p, chunk_size) ==
    <<"$", "p", "a", "g", "i", "n", "g", "(">> \o IntToStr(p)
    \o (IF IsNone(chunk_size) THEN <<>> ELSE <<",">> \o IntToStr(Val(chunk_size)))
    \o <<")", "f", "o", "r", "m", "a", "t", "(", "j", "s", "o", "n", ")">>

ValidRequest ==
    /\ call.op = "request"
    /\ ValidChunk(call.chunk_size) /\ ValidPaging(call.paging)
    /\ is_query_valid(call.matchbook)

(* C2: for a valid matchbook and a paging p >= 0 given by the caller, 0 included,
   the URL request GETs carries p itself in its paging directive. *)
C2_CallerPagingCarried ==
    (ValidRequest /\ ~IsNone(call.paging) /\ ~call.no_directives)
        => urls = <<SERVER \o API \o call.matchbook
                    \o Directives(Val(call.paging), call.chunk_size)>>

(* C3: for a valid matchbook request GETs exactly one URL: SERVER + API + m alone
   under no_directives, and otherwise, with paging unset, SERVER + API + m +
   "$paging(<default>)format(json)" or, with chunk_size = c,
   "$paging(<default>,c)format(json)". *)
C3_RequestUrl ==
    /\ (ValidRequest /\ call.no_directives)
           => urls = <<SERVER \o API \o call.matchbook>>
    /\ (ValidRequest /\ ~call.no_directives /\ IsNone(call.paging))
           => urls = <<SERVER \o API \o call.matchbook
                       \o Directives(DEFAULT_PAGING, call.chunk_size)>>

C3_Witness ==
    /\ ValidRequest /\ ~call.no_directives /\ IsNone(call.paging)
    /\ call.chunk_size = Some(2)
    /\ DEFAULT_PAGING = 1
    /\ Len(urls) = 1

C3_WitnessNoDirectives ==
    /\ ValidRequest /\ call.no_directives /\ call.paging = Some(1)
    /\ Len(urls) = 1

ServerAnswers200(c) == \A i \in DOMAIN c.answers : c.answers[i] = 200

(* C4: help() without a keyword GETs SERVER + API once, with no suffix, and, the
   server answering with a list of lines, prints the lines joined by newlines
   and returns. *)
C4_GeneralHelp ==
    (call.op = "help" /\ IsNone(call.keyword)
        /\ ServerAnswers200(call) /\ call.text = JSON_LIST_TEXT)
        => /\ urls = <<SERVER \o API>>
           /\ outcome.kind = "return"
           /\ stdout = << <<"a">> >>

(* the request behind help(keyword) would fail with RuntimeError: the server
   answers 404, or its body is no JSON *)
RequestWouldFail(c) ==
    \/ \A i \in DOMAIN c.answers : c.answers[i] = 404
    \/ ServerAnswers200(c) /\ IsNone(JsonDecode(c.text))

(* C5: help(keyword), the keyword valid and the request behind it failing with a
   runtime error, prints the 'no help' message and returns: no exception reaches
   the caller. *)
C5_KeywordHelpRecovers ==
    (call.op = "help" /\ ~IsNone(call.keyword) /\ is_query_valid(Val(call.keyword))
        /\ RequestWouldFail(call))
        => /\ outcome.kind = "return"
           /\ stdout = <<NO_HELP \o Val(call.keyword)>>

(* C6: a GET of request, get_contcar or get_property that ends in a status outside
   2xx, retries on a forcelisted status used up included, makes the call fail
   with RuntimeError. *)
C6_NonSuccessIsRuntimeError ==
    (call.op \in {"request", "get_contcar", "get_property"}
        /\ urls # <<>> /\ response.status \notin 200..299)
        => outcome.kind = "RuntimeError"

(* C7: __enter__ gives the client itself; the session is open until __exit__ and
   closed after it, by exactly one close(); __exit__ is the only step that
   closes it, it is the step that follows an exception in the body, and the
   exception of the body reaches the caller after it. *)
C7_ScopedRelease ==
    /\ [](scope = "inside" => as_target = "self")
    /\ []((scope = "left") <=> (session = "closed"))
    /\ [](nclose = IF scope = "left" THEN 1 ELSE 0)
    /\ [][pending # "none" => scope' = "left"]_vars
    /\ [][session' # session => scope = "inside" /\ scope' = "left"]_vars
    /\ [][scope' = "left" => session' = "closed" /\ propagated' = pending]_vars

C7_Witness ==
    scope = "left" /\ session = "closed" /\ nclose = 1 /\ propagated = "RuntimeError"

C7_WitnessNormalExit ==
    scope = "left" /\ session = "closed" /\ nclose = 1 /\ propagated = "none"

ContcarCase ==
    /\ call.op = "get_contcar"
    /\ {"aurl", "species"} \subseteq DOMAIN call.entry
    /\ response.returned
    /\ Len(Split(response.text, "\n")) >= 6
    /\ Len(Strip(Split(response.text, "\n")[6])) > 0

(* C8: get_contcar on an entry with 'aurl' and 'species' and a response text whose
   line 5 (0-based) is not blank returns the text unchanged when the first
   character of that line, stripped, is not numeric, and otherwise the text with
   one line more: the species joined by spaces at index 5, every other line as
   it was and in the same order. *)
C8_ContcarPatch ==
    ContcarCase =>
        LET lines == Split(response.text, "\n")
            species_line == Join(<<" ">>, call.entry["species"])
        IN  /\ outcome.kind = "return"
            /\ IF ~isnumeric(Strip(lines[6])[1])
               THEN outcome.val = response.text
               ELSE LET out == Split(outcome.val, "\n")
                    IN  /\ Len(out) = Len(lines) + 1
                        /\ out[6] = species_line
                        /\ \A i \in 1..5 : out[i] = lines[i]
                        /\ \A i \in 6..Len(lines) : out[i + 1] = lines[i]

C8_Witness ==
    /\ ContcarCase
    /\ isnumeric(Strip(Split(response.text, "\n")[6])[1])
    /\ Len(Split(response.text, "\n")) = 7
    /\ outcome.kind = "return"

C8_WitnessUnchanged ==
    /\ ContcarCase
    /\ ~isnumeric(Strip(Split(response.text, "\n")[6])[1])
    /\ outcome.kind = "return"

(* the maximal runs of alphabetic characters of a string *)
AlphaRuns(q) ==
    {SubSeq(q, i, j) : <<i, j>> \in
        {ij \in (1..Len(q)) \X (1..Len(q)) :
            /\ ij[1] <= ij[2]
            /\ \A k \in ij[1]..ij[2] : isalpha(q[k])
            /\ (ij[1] = 1 \/ ~isalpha(q[ij[1] - 1]))
            /\ (ij[2] = Len(q) \/ ~isalpha(q[ij[2] + 1]))}}

WellFormedQuery(q) ==
    /\ \E i \in 1..Len(q) : isspace(q[i])
    /\ \A i \in 1..Len(q) : q[i] \in punctuation => q[i] \in API_OPERATORS
    /\ AlphaRuns(q) \subseteq Range(API_KEYWORDS)

(* C9: is_query_valid is true of every query that has a whitespace character,
   only operators as punctuation, and only keywords as maximal runs of letters,
   whatever the keywords and the order they are visited in. *)
C9_WellFormedAccepted ==
    (call.op = "_is_query_valid" /\ WellFormedQuery(call.query)) => outcome.val = TRUE

SameKeywords(ks) ==
    Len(ks) = Len(API_KEYWORDS) /\ Range(ks) = Range(API_KEYWORDS)

(* C10: the result of is_query_valid is the same under every order in which the
   same keywords are visited. *)
C10_OrderIndependent ==
    call.op = "_is_query_valid" =>
        \A ks \in {o \in KeywordOrders : SameKeywords(o)} :
            is_query_valid_with(call.query, ks) = outcome.val

====
